---- MODULE Spec2Model ----
(***************************************************************************)
(* Phase 2 backend of the todo application: the trusted-header             *)
(* authenticator (app/auth/dependencies.py), the user store it provisions  *)
(* into (app/models/user.py) and the task CRUD routes that depend on it    *)
(* (app/routes/tasks.py).                                                  *)
(*                                                                         *)
(* Text is modelled as a sequence of letters.  A letter is a one-character *)
(* string, or one of a few fixed multi-character tokens ("GET",            *)
(* "/api/tasks/", "user_", ...) that no other letter sequence of the model *)
(* spells, so two texts of the model are equal exactly when the Python     *)
(* strings they stand for are equal.                                       *)
(*                                                                         *)
(* An optional value (a header that may be missing) is a sequence of       *)
(* length 0 (None) or 1 (the value).                                       *)
(***************************************************************************)
EXTENDS Integers, Sequences, FiniteSets, TLC

VARIABLES
    users,      \* the "users" table: set of User rows
    tasks,      \* the "tasks" table: set of Task rows
    next_id,    \* next value of the tasks.id autoincrement
    now_ms,     \* the verifier's clock, time.time() * 1000
    env,        \* the request being authenticated (authenticator specifications)
    resp,       \* the last response sent
    calls,      \* get_current_user calls in flight (provisioning specification)
    process,    \* the server process: its settings and its startup state
    store,      \* the TaskStore of the console application
    ret,        \* what the last TaskStore call returned or raised
    sent        \* the request the proxy signed and sent (None before it has)

vars == <<users, tasks, next_id, now_ms, env, resp, calls, process, store, ret, sent>>

-----------------------------------------------------------------------------
(* Bounds of the model *)

\* The clock value the model starts from.
Epoch == 1000000
\* How many times the clock may advance.
MaxTicks == 1
\* How many task rows may ever be inserted.
MaxTasks == 2
\* How many get_current_user calls run concurrently.
MaxCalls == 2
\* How many accounts may sign up.
MaxSignups == 1
\* How many tasks the console application adds to its store.
MaxAdds == 3

-----------------------------------------------------------------------------
(* Text helpers *)

None == <<>>
Some(v) == <<v>>

Rep(c, n) == [i \in 1..n |-> c]

DigitChars == <<"0", "1", "2", "3", "4", "5", "6", "7", "8", "9">>
IsDigit(c) == \E i \in 1..10 : DigitChars[i] = c
DigitVal(c) == (CHOOSE i \in 1..10 : DigitChars[i] = c) - 1

LowerHex == {"0", "1", "2", "3", "4", "5", "6", "7", "8", "9",
             "a", "b", "c", "d", "e", "f"}
UpperHex == {"A", "B", "C", "D", "E", "F"}
IsHex(c) == c \in LowerHex \cup UpperHex
LowerChar(c) ==
    CASE c = "A" -> "a" [] c = "B" -> "b" [] c = "C" -> "c"
      [] c = "D" -> "d" [] c = "E" -> "e" [] c = "F" -> "f"
      [] OTHER -> c

\* Letters outside ASCII (hmac.compare_digest refuses a str that has one).
NonAscii == {"U+00E9"}
IsAscii(s) == \A i \in 1..Len(s) : s[i] \notin NonAscii

\* A byte that is no valid UTF-8 (bytes.decode("utf-8") raises on it).
BadUtf8 == {"\\xff"}

\* str.strip(chars): drop the leading and trailing letters that are in chars.
RECURSIVE LStrip(_, _)
LStrip(s, chars) ==
    IF s # <<>> /\ Head(s) \in chars THEN LStrip(Tail(s), chars) ELSE s
RECURSIVE RStrip(_, _)
RStrip(s, chars) ==
    IF s # <<>> /\ s[Len(s)] \in chars
    THEN RStrip(SubSeq(s, 1, Len(s) - 1), chars) ELSE s
Strip(s, chars) == RStrip(LStrip(s, chars), chars)

\* str.replace(c, ""): drop every occurrence of the letter c.
Remove(s, c) == SelectSeq(s, LAMBDA x : x # c)

\* str(n) for an integer n.
RECURSIVE NatToStr(_)
NatToStr(n) ==
    IF n < 10 THEN <<DigitChars[n + 1]>>
    ELSE NatToStr(n \div 10) \o <<DigitChars[(n % 10) + 1]>>
IntToStr(n) == IF n < 0 THEN <<"-">> \o NatToStr(0 - n) ELSE NatToStr(n)

RECURSIVE DigitsVal(_)
DigitsVal(s) ==
    IF s = <<>> THEN 0
    ELSE 10 * DigitsVal(SubSeq(s, 1, Len(s) - 1)) + DigitVal(s[Len(s)])

Whitespace == {" "}

\* int(text): surrounding whitespace is ignored, then an optional sign, then
\* one or more decimal digits; anything else is a ValueError (ok = FALSE).
ParseInt(text) ==
    LET t == Strip(text, Whitespace)
        signed == t # <<>> /\ t[1] \in {"+", "-"}
        digits == IF signed THEN Tail(t) ELSE t
        good == digits # <<>> /\ \A i \in 1..Len(digits) : IsDigit(digits[i])
    IN  IF ~good THEN [ok |-> FALSE, val |-> 0]
        ELSE [ok |-> TRUE,
              val |-> IF signed /\ t[1] = "-" THEN 0 - DigitsVal(digits)
                      ELSE DigitsVal(digits)]

\* Number of hexadecimal digits of a UUID.
UUID_HEX_LEN == 32

\* UUID(text): "urn:" and "uuid:" prefixes, surrounding braces and hyphens are
\* dropped; what is left must be 32 hexadecimal digits, else ValueError.  The
\* value of a UUID is its 128-bit number, here the 32 digits in lower case.
ParseUUID(text) ==
    LET h1 == Remove(Remove(text, "urn:"), "uuid:")
        h2 == Remove(Strip(h1, {"{", "}"}), "-")
    IN  IF Len(h2) # UUID_HEX_LEN \/ \E i \in 1..Len(h2) : ~IsHex(h2[i])
        THEN [ok |-> FALSE, val |-> <<>>]
        ELSE [ok |-> TRUE, val |-> [i \in 1..Len(h2) |-> LowerChar(h2[i])]]

\* str(uuid): the canonical 8-4-4-4-12 form.
StrUUID(u) ==
    SubSeq(u, 1, 8) \o <<"-">> \o SubSeq(u, 9, 12) \o <<"-">> \o
    SubSeq(u, 13, 16) \o <<"-">> \o SubSeq(u, 17, 20) \o <<"-">> \o
    SubSeq(u, 21, 32)

-----------------------------------------------------------------------------
(* The authenticator: app/auth/dependencies.py *)

INTERNAL_TIME_SKEW_MS == 5 * 60 * 1000

\* settings.BETTER_AUTH_SECRET, the secret shared with the proxy.
BETTER_AUTH_SECRET == Rep("k", 32)

Abs(n) == IF n < 0 THEN 0 - n ELSE n

\* request.headers.get(name): None when the header is missing.
HeaderGet(req, name) ==
    IF name \in DOMAIN req.headers THEN Some(req.headers[name]) ELSE None

\* Python's "not x" for an optional text: None and "" are both falsy.
Falsy(opt) == opt = None \/ opt[1] = <<>>

\* str.upper() of an HTTP method.
Upper(m) ==
    CASE m = "get" -> "GET" [] m = "post" -> "POST" [] OTHER -> m

\* bytes.decode("utf-8") succeeds.
ValidUtf8(raw) == \A i \in 1..Len(raw) : raw[i] \notin BadUtf8

\* Mutant of Payload: the method is left out of the signed text.
PayloadWithoutMethod(user_id, timestamp, method, path, body_text) ==
    user_id \o <<":">> \o timestamp \o <<":">> \o path \o <<":">> \o body_text

\* f"{user_id}:{timestamp}:{method}:{path}:{body_text}"
Payload(user_id, timestamp, method, path, body_text) ==
    user_id \o <<":">> \o timestamp \o <<":">> \o <<method>> \o <<":">> \o
    path \o <<":">> \o body_text

\* hmac.new(key, msg, sha256).hexdigest().  HMAC-SHA256 is taken as an ideal
\* MAC: two digests are equal exactly when key and message are equal.  The
\* digest is the text that tags key and message (no key contains "#").
HmacSha256Hex(key, msg) == <<"#">> \o key \o <<"#">> \o msg

Unauthorized == [status |-> 401, detail |-> "Unauthorized", user |-> None]
ServerError == [status |-> 500, detail |-> "Internal Server Error", user |-> None]
Authenticated(u) == [status |-> 200, detail |-> "", user |-> Some(u)]

\* hmac.compare_digest(expected, signature) of two ASCII texts.
CompareDigest(expected, signature) == expected = signature

\* Mutant of SkewExceeded: the boundary itself is rejected.
SkewExceededAtBoundary(now, ts_ms) == Abs(now - ts_ms) >= INTERNAL_TIME_SKEW_MS

\* abs(now_ms - ts_ms) > INTERNAL_TIME_SKEW_MS
SkewExceeded(now, ts_ms) == Abs(now - ts_ms) > INTERNAL_TIME_SKEW_MS

\* Mutant of HeadersMissing: the signature header is not looked at.
HeadersMissingNoSignature(user_id, timestamp, signature) ==
    Falsy(user_id) \/ Falsy(timestamp)

\* "if not user_id or not timestamp or not signature" (line 42).
HeadersMissing(user_id, timestamp, signature) ==
    Falsy(user_id) \/ Falsy(timestamp) \/ Falsy(signature)

\* get_current_user up to the signature check (lines 38-75): the outcome of the
\* header, UUID, timestamp, skew and signature checks, in the code's order.
\* Only ValueError is caught around UUID() and int(); the TypeError that
\* UUID(None), int(None) or compare_digest raise, and the UnicodeDecodeError of
\* the body decode, are not caught and end the request with a server error.
VerifyWithSecret(secret, req, now) ==
    LET user_id == HeaderGet(req, "x-user-id")
        timestamp == HeaderGet(req, "x-internal-timestamp")
        signature == HeaderGet(req, "x-internal-signature")
    IN  IF HeadersMissing(user_id, timestamp, signature) THEN Unauthorized
        ELSE IF user_id = None THEN ServerError
        ELSE IF ~ParseUUID(user_id[1]).ok THEN Unauthorized
        ELSE IF timestamp = None THEN ServerError
        ELSE IF ~ParseInt(timestamp[1]).ok THEN Unauthorized
        ELSE IF SkewExceeded(now, ParseInt(timestamp[1]).val) THEN Unauthorized
        ELSE IF ~ValidUtf8(req.body) THEN ServerError
        ELSE IF signature = None THEN ServerError
        ELSE IF ~IsAscii(signature[1]) THEN ServerError
        ELSE IF ~CompareDigest(
                    HmacSha256Hex(secret,
                        Payload(user_id[1], timestamp[1], Upper(req.method),
                                req.path, req.body)),
                    signature[1])
             THEN Unauthorized
        ELSE Authenticated(ParseUUID(user_id[1]).val)

\* get_current_user's checks in a process whose settings hold the configured
\* secret.
VerifyRequest(req, now) == VerifyWithSecret(BETTER_AUTH_SECRET, req, now)

\* The settings of a process: what the environment gives for the two
\* required variables ("" for a variable that is not set).
Settings(secret, database_url) ==
    [BETTER_AUTH_SECRET |-> secret, DATABASE_URL |-> database_url]
DatabaseUrl == <<"sqlite:///todo.db">>

\* A process: its settings and how far its startup has come.
Process(settings, state) == [settings |-> settings, state |-> state]

\* The process that started with the configured secret and serves requests.
Serving == Process(Settings(BETTER_AUTH_SECRET, DatabaseUrl), "serving")

-----------------------------------------------------------------------------
(* The console application's store: todo_app/storage.py, todo_app/models.py *)

\* TaskStore.__init__: no task, next_id 1.
EmptyStore == [tasks |-> <<>>, next_id |-> 1]

\* A TaskStore call that has ended: the method, its arguments, the value it
\* returned, or the message of the ValueError it raised ("" when it returned).
\* adds counts the calls of add that have returned a task so far.
CallResult(op, args, value, error, adds) ==
    [op |-> op, args |-> args, value |-> value, error |-> error, adds |-> adds]
NoResult == CallResult("none", <<>>, None, "", 0)

\* TaskStore.validate_title: "" when the title is accepted, else the message
\* of the ValueError.
validate_title(title) ==
    IF title = <<>> \/ Strip(title, Whitespace) = <<>> THEN "Title cannot be empty"
    ELSE IF Len(title) > 200 THEN "Title must be between 1 and 200 characters"
    ELSE ""

\* TaskStore.validate_description, the same way; the description may be None.
validate_description(description) ==
    IF description # None /\ Len(description[1]) > 1000
    THEN "Description must be at most 1000 characters"
    ELSE ""

\* description.strip() if description else None
StripDescription(description) ==
    IF description # None /\ description[1] # <<>>
    THEN Some(Strip(description[1], Whitespace))
    ELSE None

\* The Task dataclass of todo_app/models.py.
Task(id, title, description, completed, created_at) ==
    [id |-> id, title |-> title, description |-> description,
     completed |-> completed, created_at |-> created_at]

\* What a call leaves behind: the store after it, the value it returns and
\* the message of the ValueError it raises ("" when it returns).
Effect(st, value, error) == [store |-> st, value |-> value, error |-> error]

\* Mutant of AddedStore: the new task takes the smallest id no task holds.
AddedStoreReusingIds(st, title, description, now) ==
    LET free == CHOOSE i \in 1..(Len(st.tasks) + 1) :
                    /\ \A k \in 1..Len(st.tasks) : st.tasks[k].id # i
                    /\ \A j \in 1..(i - 1) :
                         \E k \in 1..Len(st.tasks) : st.tasks[k].id = j
    IN  [tasks |-> Append(st.tasks,
                     Task(free, Strip(title, Whitespace), StripDescription(description),
                          FALSE, now)),
         next_id |-> free + 1]

\* TaskStore.add, lines 66-73: the task is built with the id next_id and
\* appended, and next_id advances.
AddedStore(st, title, description, now) ==
    [tasks |-> Append(st.tasks,
                 Task(st.next_id, Strip(title, Whitespace), StripDescription(description),
                      FALSE, now)),
     next_id |-> st.next_id + 1]

\* Mutant of add: next_id advances before the arguments are validated.
addCountingFailures(st, title, description, now) ==
    IF validate_title(title) # ""
    THEN Effect([st EXCEPT !.next_id = @ + 1], None, validate_title(title))
    ELSE IF validate_description(description) # ""
    THEN Effect([st EXCEPT !.next_id = @ + 1], None,
                validate_description(description))
    ELSE Effect(AddedStore(st, title, description, now),
                Some(AddedStore(st, title, description, now).tasks[Len(st.tasks) + 1]),
                "")

\* TaskStore.add.
add(st, title, description, now) ==
    IF validate_title(title) # ""
    THEN Effect(st, None, validate_title(title))
    ELSE IF validate_description(description) # ""
    THEN Effect(st, None, validate_description(description))
    ELSE Effect(AddedStore(st, title, description, now),
                Some(AddedStore(st, title, description, now).tasks[Len(st.tasks) + 1]),
                "")

\* The positions of the tasks with the given id, and the first of them: the
\* loop of TaskStore.get.
PositionsOf(st, task_id) == {k \in 1..Len(st.tasks) : st.tasks[k].id = task_id}
FirstPosition(st, task_id) ==
    CHOOSE k \in PositionsOf(st, task_id) :
        \A j \in PositionsOf(st, task_id) : k <= j

\* TaskStore.get: the task, or None.
get(st, task_id) ==
    IF PositionsOf(st, task_id) = {} THEN None
    ELSE Some(st.tasks[FirstPosition(st, task_id)])

\* Mutant of list_all: the tasks ordered by id, highest first.
list_all_newest_first(st) ==
    [k \in 1..Len(st.tasks) |-> st.tasks[Len(st.tasks) + 1 - k]]

\* TaskStore.list_all: a copy of the list.
list_all(st) == st.tasks

\* The sequence without its k-th element.
RemoveAt(seq, k) ==
    [j \in 1..(Len(seq) - 1) |-> IF j < k THEN seq[j] ELSE seq[j + 1]]

\* TaskStore.update.  The title is assigned before the description is
\* validated, so a ValueError of the description leaves the new title in place.
update(st, task_id, title, description) ==
    IF get(st, task_id) = None THEN Effect(st, FALSE, "")
    ELSE LET k == FirstPosition(st, task_id)
             titled == IF title = None THEN st
                       ELSE [st EXCEPT !.tasks[k].title = Strip(title[1], Whitespace)]
         IN  IF title # None /\ validate_title(title[1]) # ""
             THEN Effect(st, None, validate_title(title[1]))
             ELSE IF description = None THEN Effect(titled, TRUE, "")
             ELSE IF validate_description(description) # ""
             THEN Effect(titled, None, validate_description(description))
             ELSE Effect([titled EXCEPT !.tasks[k].description =
                                            StripDescription(description)],
                         TRUE, "")

\* Mutant of delete: an id that is not in the store removes the last task.
deleteLastWhenMissing(st, task_id) ==
    IF get(st, task_id) = None
    THEN IF st.tasks = <<>> THEN Effect(st, FALSE, "")
         ELSE Effect([st EXCEPT !.tasks = RemoveAt(@, Len(@))], FALSE, "")
    ELSE Effect([st EXCEPT !.tasks = RemoveAt(@, FirstPosition(st, task_id))],
                TRUE, "")

\* Mutant of delete: the task at the head of the list is removed, whichever
\* task has the id.
deleteHeadTask(st, task_id) ==
    IF get(st, task_id) = None THEN Effect(st, FALSE, "")
    ELSE Effect([st EXCEPT !.tasks = RemoveAt(@, 1)], TRUE, "")

\* TaskStore.delete.
delete(st, task_id) ==
    IF get(st, task_id) = None THEN Effect(st, FALSE, "")
    ELSE Effect([st EXCEPT !.tasks = RemoveAt(@, FirstPosition(st, task_id))],
                TRUE, "")

\* Mutant of mark_complete: the flag is flipped, whatever value is given.
mark_complete_toggling(st, task_id, completed) ==
    IF get(st, task_id) = None THEN Effect(st, FALSE, "")
    ELSE Effect([st EXCEPT !.tasks[FirstPosition(st, task_id)].completed = ~@],
                TRUE, "")

\* TaskStore.mark_complete.
mark_complete(st, task_id, completed) ==
    IF get(st, task_id) = None THEN Effect(st, FALSE, "")
    ELSE Effect([st EXCEPT !.tasks[FirstPosition(st, task_id)].completed =
                               completed],
                TRUE, "")

-----------------------------------------------------------------------------
(* The user store: app/models/user.py *)

\* The row get_current_user builds for a user it has not seen (lines 88-94).
NewUserRow(user_uuid, now) ==
    [id |-> user_uuid,
     email |-> <<"user_">> \o StrUUID(user_uuid) \o <<"@better-auth.com">>,
     password_hash |-> <<>>,
     created_at |-> now,
     updated_at |-> now]

\* select(User).where(User.id == user_uuid) finds a row.
UserExists(tbl, user_uuid) == \E u \in tbl : u.id = user_uuid

\* The constraints of the users table: id is the primary key, email is unique.
InsertConflict(tbl, row) ==
    \E u \in tbl : u.id = row.id \/ u.email = row.email

\* Mutant of InsertUser: the row replaces the rows it conflicts with.
InsertUserUpsert(tbl, row) ==
    {u \in tbl : u.id # row.id /\ u.email # row.email} \cup {row}

\* session.add(row); session.commit(): the row is appended unless a constraint
\* is violated, in which case the commit raises and the table is unchanged.
\* (No two rows of the table are equal in every column: id is a key.)
InsertUser(tbl, row) ==
    IF InsertConflict(tbl, row) THEN tbl ELSE tbl \cup {row}

\* get_current_user, lines 79-105, run without interleaving: look the user up,
\* insert a minimal row when there is none; any error is swallowed.
Provision(tbl, user_uuid, now) ==
    IF UserExists(tbl, user_uuid) THEN tbl
    ELSE InsertUser(tbl, NewUserRow(user_uuid, now))

\* Mutant of GetCurrentUser: the row is written as soon as the id header
\* parses, before the timestamp, skew and signature checks.
GetCurrentUserWritingFirst(req, now, tbl) ==
    LET r == CHOOSE x \in {VerifyRequest(req, now)} : TRUE
        user_id == HeaderGet(req, "x-user-id")
    IN  [status |-> r.status, detail |-> r.detail, user |-> r.user,
         users |-> IF user_id # None /\ ParseUUID(user_id[1]).ok
                   THEN Provision(tbl, ParseUUID(user_id[1]).val, now)
                   ELSE tbl]

\* get_current_user as a whole, run without interleaving: the response of the
\* dependency and the users table it leaves.
GetCurrentUser(req, now, tbl) ==
    LET r == CHOOSE x \in {VerifyRequest(req, now)} : TRUE
    IN  [status |-> r.status, detail |-> r.detail, user |-> r.user,
         users |-> IF r.status = 200 THEN Provision(tbl, r.user[1], now)
                   ELSE tbl]

-----------------------------------------------------------------------------
(* Requests *)

\* External user ids: two UUIDs, and an id a provider issues that is no UUID.
U1 == Rep("1", UUID_HEX_LEN)
U2 == Rep("a", UUID_HEX_LEN)
NonUuidId == <<"u", "s", "e", "r", "-", "4", "2">>

\* A key that is not the shared secret.
WrongKey == Rep("x", 32)

TasksPath == <<"/api/tasks/">>

\* {"description": d} as the JSON text of a request body.
TaskBody(d) == <<"{\"description\":\"">> \o d \o <<"\"}">>

\* A request as the server sees it: headers (a function from the names of the
\* headers present to their values), method, path and raw body.
Request(headers, method, path, body) ==
    [headers |-> headers, method |-> method, path |-> path, body |-> body]

\* The three identity headers as the proxy sets them.
IdentityHeaders(user_id, timestamp, signature) ==
    [h \in {"x-user-id", "x-internal-timestamp", "x-internal-signature"} |->
        CASE h = "x-user-id" -> user_id
          [] h = "x-internal-timestamp" -> timestamp
          [] OTHER -> signature]

\* The signature the proxy computes for a request with key k.
Sign(k, user_id, timestamp, method, path, body) ==
    HmacSha256Hex(k, Payload(user_id, timestamp, method, path, body))

\* A function restricted to the keys in S (the other headers are missing).
Restrict(f, S) == [x \in S \cap DOMAIN f |-> f[x]]

NoRequest == Request(<<>>, "", <<>>, <<>>)
\* resp: the handler that answered, the status and detail of the answer, the
\* identity get_current_user returned (None when it failed), the task_id path
\* parameter (0 when the route has none), the body of the request and the task
\* rows in the answer.
Response(op, status, detail, user, task_id, body, rows) ==
    [op |-> op, status |-> status, detail |-> detail, user |-> user,
     task_id |-> task_id, body |-> body, rows |-> rows]
NoResponse == Response("none", 0, "", None, 0, <<>>, {})

-----------------------------------------------------------------------------
(* Specification SpecAuth: one request, authenticated any number of times     *)
(* as the clock advances.  The request is any of AuthEnvelopes.               *)

AuthUserIds ==
    {<<>>, NonUuidId, StrUUID(U1), StrUUID(U2), StrUUID(Rep("A", UUID_HEX_LEN))}

SkewOffsets ==
    {0, INTERNAL_TIME_SKEW_MS, INTERNAL_TIME_SKEW_MS + 1,
     0 - INTERNAL_TIME_SKEW_MS, 0 - (INTERNAL_TIME_SKEW_MS + 1)}

AuthTimestamps ==
    {<<>>, <<"a", "b", "c">>, <<" ">> \o IntToStr(Epoch)}
    \cup {IntToStr(Epoch + d) : d \in SkewOffsets}

AuthMethods == {"GET", "POST"}
AuthBodies == {<<>>, TaskBody(<<"a">>), <<"\\xff">>}

OtherMethod(m) == IF m = "GET" THEN "POST" ELSE "GET"

\* What the signature header may hold for a request: nothing, the proxy's
\* signature, a signature under another key, the signature of the same request
\* with the other method, or text that is not ASCII.
AuthSignatures(u, t, m, p, b) ==
    {<<>>, Sign(BETTER_AUTH_SECRET, u, t, m, p, b), Sign(WrongKey, u, t, m, p, b),
     Sign(BETTER_AUTH_SECRET, u, t, OtherMethod(m), p, b), <<"U+00E9">>}

HeaderNames == {"x-user-id", "x-internal-timestamp", "x-internal-signature"}

\* Every combination of the above, with every subset of the headers present.
ProductEnvelopes ==
    UNION { UNION { UNION { UNION {
        { Request(Restrict(IdentityHeaders(u, t, s), present), m, TasksPath, b)
            : s \in AuthSignatures(u, t, m, TasksPath, b),
              present \in SUBSET HeaderNames }
        : b \in AuthBodies } : m \in AuthMethods } : t \in AuthTimestamps }
        : u \in AuthUserIds }

\* The letters a single letter of a signature is changed to.
FlipLetters == {"0", "U+00E9"}

\* The texts that differ from sig in exactly one position.
Flips(sig) ==
    {[sig EXCEPT ![i] = c] : i \in 1..Len(sig), c \in FlipLetters} \ {sig}

\* Correctly signed requests with one letter of the signature changed.
FlippedEnvelopes ==
    UNION {
        { Request(IdentityHeaders(StrUUID(U1), IntToStr(Epoch), s), m, TasksPath, <<>>)
            : s \in Flips(Sign(BETTER_AUTH_SECRET, StrUUID(U1), IntToStr(Epoch),
                               m, TasksPath, <<>>)) }
        : m \in AuthMethods }

AuthEnvelopes == ProductEnvelopes \cup FlippedEnvelopes

InitAuth ==
    /\ users = {}
    /\ tasks = {}
    /\ next_id = 1
    /\ now_ms = Epoch
    /\ env \in AuthEnvelopes
    /\ resp = NoResponse
    /\ calls = <<>>
    /\ process = Serving
    /\ store = EmptyStore
    /\ ret = NoResult
    /\ sent = None

\* One call of get_current_user on the request.
AuthCall ==
    \E r \in {GetCurrentUser(env, now_ms, users)} :
        /\ resp' = Response("auth", r.status, r.detail, r.user, 0, env.body, {})
        /\ users' = r.users
        /\ UNCHANGED <<tasks, next_id, now_ms, env, calls, process, store, ret, sent>>

\* The clock advances (resp holds the answer given at the current clock value).
Tick ==
    /\ now_ms < Epoch + MaxTicks
    /\ now_ms' = now_ms + 1
    /\ resp' = NoResponse
    /\ UNCHANGED <<users, tasks, next_id, env, calls, process, store, ret, sent>>

NextAuth == AuthCall \/ Tick

SpecAuth == InitAuth /\ [][NextAuth]_vars

-----------------------------------------------------------------------------
(* The task routes: app/routes/tasks.py *)

\* Path of /api/tasks/{task_id} and of /api/tasks/{task_id}/toggle.
TaskPath(task_id) == TasksPath \o IntToStr(task_id)
TogglePath(task_id) == TaskPath(task_id) \o <<"/toggle">>

\* The router: which handler a method and path reach ("" when none does).
Route(method, path) ==
    LET rest == SubSeq(path, 2, Len(path))
        toggle == rest # <<>> /\ rest[Len(rest)] = "/toggle"
        param == IF toggle THEN SubSeq(rest, 1, Len(rest) - 1) ELSE rest
    IN  IF path = <<>> \/ path[1] # TasksPath[1] THEN ""
        ELSE IF rest = <<>> THEN
            CASE method = "GET" -> "list_tasks"
              [] method = "POST" -> "create_task"
              [] OTHER -> ""
        ELSE IF ~ParseInt(param).ok THEN ""
        ELSE IF toggle THEN (IF method = "PATCH" THEN "toggle_task" ELSE "")
        ELSE CASE method = "GET" -> "get_task"
               [] method = "PUT" -> "update_task"
               [] method = "DELETE" -> "delete_task"
               [] OTHER -> ""

\* The task_id path parameter.
PathTaskId(path) ==
    LET rest == SubSeq(path, 2, Len(path))
    IN  IF rest # <<>> /\ rest[Len(rest)] = "/toggle"
        THEN ParseInt(SubSeq(rest, 1, Len(rest) - 1)).val
        ELSE ParseInt(rest).val

\* The letters of a JSON body that delimit its fields.
JsonOpen == "{\"description\":\""
JsonUserId == "\",\"user_id\":\""
JsonClose == "\"}"

\* {"description": d, "user_id": u}: a body that names an owner of its own.
TaskBodyWithUser(d, u) == <<JsonOpen>> \o d \o <<JsonUserId>> \o u \o <<JsonClose>>

\* Index of the first letter of s, from position i on, that is in S (0: none).
RECURSIVE FindFrom(_, _, _)
FindFrom(s, i, S) ==
    IF i > Len(s) THEN 0 ELSE IF s[i] \in S THEN i ELSE FindFrom(s, i + 1, S)

\* TaskCreate / TaskUpdate: the description field of the body, which must be
\* there and have 1 to 500 characters (schemas/task.py); every other field of
\* the body is ignored.
ParseTaskBody(body) ==
    LET stop == FindFrom(body, 2, {JsonUserId, JsonClose})
    IN  IF body = <<>> \/ body[1] # JsonOpen \/ stop = 0
        THEN [ok |-> FALSE, description |-> <<>>]
        ELSE [ok |-> stop - 2 >= 1 /\ stop - 2 <= 500,
              description |-> SubSeq(body, 2, stop - 1)]

\* The user_id field of the body, when it has one.
BodyUserId(body) ==
    LET at == FindFrom(body, 1, {JsonUserId})
    IN  IF at = 0 THEN None ELSE Some(SubSeq(body, at + 1, Len(body) - 1))

\* Mutant of TasksOf: the owner filter is left out.
TasksOfEveryone(tbl, current_user_id) == tbl

\* select(Task).where(Task.user_id == current_user_id)
TasksOf(tbl, current_user_id) == {t \in tbl : t.user_id = current_user_id}

\* Mutant of FindTask: the task is looked up by id alone.
FindTaskOfAnyOwner(tbl, task_id, current_user_id) == {t \in tbl : t.id = task_id}

\* select(Task).where(Task.id == task_id, Task.user_id == current_user_id)
FindTask(tbl, task_id, current_user_id) ==
    {t \in tbl : t.id = task_id /\ t.user_id = current_user_id}

\* Mutant of NewTaskOwner: a user_id field of the body is taken as the owner.
NewTaskOwnerFromBody(current_user_id, body) ==
    IF BodyUserId(body) # None /\ ParseUUID(BodyUserId(body)[1]).ok
    THEN ParseUUID(BodyUserId(body)[1]).val
    ELSE current_user_id

\* The owner create_task gives a new task (line 45).
NewTaskOwner(current_user_id, body) == current_user_id

\* The row create_task inserts (lines 44-50).
NewTask(id, current_user_id, body, now) ==
    [id |-> id,
     user_id |-> NewTaskOwner(current_user_id, body),
     description |-> ParseTaskBody(body).description,
     completed |-> FALSE,
     created_at |-> now,
     updated_at |-> now]

\* update_task, lines 110-112.
UpdatedTask(t, body, now) ==
    [t EXCEPT !.description = ParseTaskBody(body).description, !.updated_at = now]

\* Mutant of ToggledTask: the task is marked completed.
ToggledTaskCompleting(t, now) ==
    [t EXCEPT !.completed = TRUE, !.updated_at = now]

\* toggle_task, lines 144-146.
ToggledTask(t, now) ==
    [t EXCEPT !.completed = ~t.completed, !.updated_at = now]

NotFound == [status |-> 404, detail |-> "Task not found or access denied"]

\* What a handler leaves: the response and the tables.
Outcome(status, detail, rows, tbl, nid) ==
    [status |-> status, detail |-> detail, rows |-> rows, tasks |-> tbl,
     next_id |-> nid]

\* The body of each handler, for the authenticated user cu.
list_tasks(cu) == Outcome(200, "", TasksOf(tasks, cu), tasks, next_id)

create_task(cu, body) ==
    IF ~ParseTaskBody(body).ok
    THEN Outcome(422, "Unprocessable Entity", {}, tasks, next_id)
    ELSE LET new_task == NewTask(next_id, cu, body, now_ms)
         IN  Outcome(201, "", {new_task}, tasks \cup {new_task}, next_id + 1)

\* Mutant of get_task: a task of another user is answered with 403.
get_task_forbidding(cu, task_id) ==
    LET found == FindTask(tasks, task_id, cu)
    IN  IF found = {}
        THEN IF \E t \in tasks : t.id = task_id
             THEN Outcome(403, "Forbidden", {}, tasks, next_id)
             ELSE Outcome(404, NotFound.detail, {}, tasks, next_id)
        ELSE Outcome(200, "", found, tasks, next_id)

get_task(cu, task_id) ==
    LET found == FindTask(tasks, task_id, cu)
    IN  IF found = {} THEN Outcome(404, NotFound.detail, {}, tasks, next_id)
        ELSE Outcome(200, "", found, tasks, next_id)

update_task(cu, task_id, body) ==
    LET found == FindTask(tasks, task_id, cu)
    IN  IF ~ParseTaskBody(body).ok
        THEN Outcome(422, "Unprocessable Entity", {}, tasks, next_id)
        ELSE IF found = {} THEN Outcome(404, NotFound.detail, {}, tasks, next_id)
        ELSE LET new == {UpdatedTask(t, body, now_ms) : t \in found}
             IN  Outcome(200, "", new, (tasks \ found) \cup new, next_id)

toggle_task(cu, task_id) ==
    LET found == FindTask(tasks, task_id, cu)
    IN  IF found = {} THEN Outcome(404, NotFound.detail, {}, tasks, next_id)
        ELSE LET new == {ToggledTask(t, now_ms) : t \in found}
             IN  Outcome(200, "", new, (tasks \ found) \cup new, next_id)

delete_task(cu, task_id) ==
    LET found == FindTask(tasks, task_id, cu)
    IN  IF found = {} THEN Outcome(404, NotFound.detail, {}, tasks, next_id)
        ELSE Outcome(200, "Task deleted successfully", {}, tasks \ found, next_id)

\* The handler a routed request reaches, run for the authenticated user cu.
Dispatch(op, task_id, body, cu) ==
    CASE op = "list_tasks" -> list_tasks(cu)
      [] op = "create_task" -> create_task(cu, body)
      [] op = "get_task" -> get_task(cu, task_id)
      [] op = "update_task" -> update_task(cu, task_id, body)
      [] op = "toggle_task" -> toggle_task(cu, task_id)
      [] OTHER -> delete_task(cu, task_id)

\* A request as it arrives at clock value t: the handler the router gives it
\* to, its task_id path parameter (0 when the route has none), its body and
\* the outcome of the checks of get_current_user, which depend on nothing but
\* the request and the clock.
Arrival(req, t) ==
    [op |-> Route(req.method, req.path),
     task_id |-> IF Route(req.method, req.path) \in {"list_tasks", "create_task"}
                 THEN 0 ELSE PathTaskId(req.path),
     body |-> req.body,
     auth |-> VerifyRequest(req, t)]

\* One request to a task route, served from arrival to response: the
\* dependency get_current_user first (a failure there ends the request; a
\* success provisions the user), then the handler.
Serve(a) ==
    IF a.auth.status # 200
    THEN /\ resp' = Response(a.op, a.auth.status, a.auth.detail, None,
                             a.task_id, a.body, {})
         /\ UNCHANGED <<users, tasks, next_id, now_ms, env, calls, process, store, ret, sent>>
    ELSE \E out \in {Dispatch(a.op, a.task_id, a.body, a.auth.user[1])} :
         /\ users' = Provision(users, a.auth.user[1], now_ms)
         /\ resp' = Response(a.op, out.status, out.detail, a.auth.user,
                             a.task_id, a.body, out.rows)
         /\ tasks' = out.tasks
         /\ next_id' = out.next_id
         /\ UNCHANGED <<now_ms, env, calls, process, store, ret, sent>>

-----------------------------------------------------------------------------
(* Specification Spec: requests to the task routes, served one at a time *)

\* Who sends requests: two users behind the proxy, and a sender that signs
\* with a key that is not the shared secret.
CallerIds == {StrUUID(U1), StrUUID(U2)}
Senders ==
    {[user_id |-> u, key |-> BETTER_AUTH_SECRET] : u \in CallerIds}
    \cup {[user_id |-> StrUUID(U1), key |-> WrongKey]}

TaskIds == 1..MaxTasks
Descriptions == {<<"a">>, <<"b">>}

\* Bodies of create and update requests: a description (the empty one is not
\* valid), alone or with a user_id field naming some user.
TaskBodies ==
    {TaskBody(d) : d \in Descriptions \cup {<<>>}}
    \cup {TaskBodyWithUser(<<"a">>, u) : u \in CallerIds}

\* Method, path and body of the requests sent to the task routes.
Calls ==
    {<<"GET", TasksPath, <<>> >>}
    \cup {<<"POST", TasksPath, b>> : b \in TaskBodies}
    \cup {<<"GET", TaskPath(id), <<>> >> : id \in TaskIds}
    \cup {<<"PUT", TaskPath(id), b>> : id \in TaskIds, b \in TaskBodies}
    \cup {<<"PATCH", TogglePath(id), <<>> >> : id \in TaskIds}
    \cup {<<"DELETE", TaskPath(id), <<>> >> : id \in TaskIds}

\* The request a sender builds at clock value t: its user id, the clock as
\* timestamp, and the signature under its key.
SignedRequest(sender, t, method, path, body) ==
    Request(IdentityHeaders(sender.user_id, IntToStr(t),
                Sign(sender.key, sender.user_id, IntToStr(t), method, path, body)),
            method, path, body)

ClockValues == Epoch..(Epoch + MaxTicks)

\* The requests that can arrive at each clock value.
Arrivals ==
    [t \in ClockValues |->
        {Arrival(SignedRequest(sender, t, c[1], c[2], c[3]), t)
            : sender \in Senders, c \in Calls}]

Init ==
    /\ users = {}
    /\ tasks = {}
    /\ next_id = 1
    /\ now_ms = Epoch
    /\ env = NoRequest
    /\ resp = NoResponse
    /\ calls = <<>>
    /\ process = Serving
    /\ store = EmptyStore
    /\ ret = NoResult
    /\ sent = None

ListTasks ==
    \E a \in Arrivals[now_ms] : a.op = "list_tasks" /\ Serve(a)

CreateTask ==
    \E a \in Arrivals[now_ms] :
        a.op = "create_task" /\ next_id <= MaxTasks /\ Serve(a)

GetTask ==
    \E a \in Arrivals[now_ms] : a.op = "get_task" /\ Serve(a)

UpdateTask ==
    \E a \in Arrivals[now_ms] : a.op = "update_task" /\ Serve(a)

ToggleTask ==
    \E a \in Arrivals[now_ms] : a.op = "toggle_task" /\ Serve(a)

DeleteTask ==
    \E a \in Arrivals[now_ms] : a.op = "delete_task" /\ Serve(a)

Next ==
    \/ ListTasks
    \/ CreateTask
    \/ GetTask
    \/ UpdateTask
    \/ ToggleTask
    \/ DeleteTask
    \/ Tick

Spec == Init /\ [][Next]_vars

-----------------------------------------------------------------------------
(* Signup: app/routes/auth.py, app/core/security.py *)

UpperLetters == {"A", "B", "C", "D", "E", "F", "P"}
LowerLetters == {"a", "b", "c", "d", "e", "f", "o", "r", "s", "w"}

\* validate_password_strength: "" when the password is strong enough, else
\* the message of the first requirement it fails.
validate_password_strength(password) ==
    IF Len(password) < 8 THEN "Password must be at least 8 characters"
    ELSE IF ~\E i \in 1..Len(password) : password[i] \in UpperLetters
    THEN "Password must contain at least 1 uppercase letter"
    ELSE IF ~\E i \in 1..Len(password) : password[i] \in LowerLetters
    THEN "Password must contain at least 1 lowercase letter"
    ELSE IF ~\E i \in 1..Len(password) : IsDigit(password[i])
    THEN "Password must contain at least 1 number"
    ELSE ""

\* bcrypt takes at most 72 bytes of a password; hash_password and
\* verify_password cut the password there.
BCRYPT_MAX_BYTES == 72
Truncated(password) ==
    IF Len(password) > BCRYPT_MAX_BYTES THEN SubSeq(password, 1, BCRYPT_MAX_BYTES)
    ELSE password

\* The text every hash of bcrypt.hashpw with gensalt(rounds=12) begins with.
BcryptPrefix == <<"$2b$12$">>

\* hash_password: the bcrypt hash, taken as an ideal one-way tag of the
\* password (the salt is left out).
hash_password(password) == BcryptPrefix \o Truncated(password)

\* verify_password: "True" or "False" as bcrypt.checkpw returns, or
\* "ValueError" when the stored text is no bcrypt hash (checkpw raises
\* ValueError("Invalid salt"), which verify_password does not catch).
verify_password(plain_password, hashed_password) ==
    IF \/ Len(hashed_password) < Len(BcryptPrefix)
       \/ SubSeq(hashed_password, 1, Len(BcryptPrefix)) # BcryptPrefix
    THEN "ValueError"
    ELSE IF hashed_password = BcryptPrefix \o Truncated(plain_password)
    THEN "True"
    ELSE "False"

\* uuid4(), the default of User.id: the k-th account gets the k-th of these.
SignupLetters == <<"b", "c", "d", "e", "f">>
SignupId(k) == Rep(SignupLetters[k], UUID_HEX_LEN)
SignupIds == {SignupId(k) : k \in 1..Len(SignupLetters)}

\* The row signup inserts (lines 80-85).
SignupRow(id, email, password, now) ==
    [id |-> id,
     email |-> email,
     password_hash |-> hash_password(password),
     created_at |-> now,
     updated_at |-> now]

\* select(User).where(User.email == email) finds a row.
EmailExists(tbl, email) == \E u \in tbl : u.email = email

\* signup, lines 62-75: the password and email checks.  Status 0 lets the
\* request go on to the insert.
signup_check(tbl, email, password) ==
    IF validate_password_strength(password) # ""
    THEN [status |-> 400, detail |-> validate_password_strength(password)]
    ELSE IF EmailExists(tbl, email)
    THEN [status |-> 409, detail |-> "Email already registered"]
    ELSE [status |-> 0, detail |-> ""]

\* signup, lines 77-98: the insert and its commit.  The IntegrityError of a
\* commit that breaks a constraint is not caught: the request ends with a
\* server error and no row.
signup_commit(tbl, email, password, now) ==
    LET id == SignupId(Cardinality({u \in tbl : u.id \in SignupIds}) + 1)
    IN  IF InsertConflict(tbl, SignupRow(id, email, password, now))
        THEN [status |-> 500, detail |-> "Internal Server Error",
              user |-> None, users |-> tbl]
        ELSE [status |-> 201, detail |-> "User created successfully",
              user |-> Some(id),
              users |-> InsertUser(tbl, SignupRow(id, email, password, now))]

\* The emails and passwords accounts sign up with: the placeholder email the
\* authenticator gives U1 and an ordinary one; a strong password and one
\* without a digit.
SignupEmails ==
    {NewUserRow(U1, 0).email,
     <<"x", "@", "e", "x", "a", "m", "p", "l", "e", ".", "c", "o", "m">>}
SignupPasswords ==
    {<<"P", "a", "s", "s", "w", "o", "r", "d", "1">>,
     <<"P", "a", "s", "s", "w", "o", "r", "d">>}

\* A signup request in flight: where it is in signup, and what it carries.
SignupCall(pc, email, password) ==
    [pc |-> pc, email |-> email, password |-> password]
IdleSignup == SignupCall("idle", <<>>, <<>>)

\* A signup request arrives and is checked; a failed check is the response.
SignupCheck ==
    /\ calls.signup.pc = "idle"
    /\ Cardinality({u \in users : u.id \in SignupIds}) < MaxSignups
    /\ \E email \in SignupEmails, password \in SignupPasswords :
       \E r \in {signup_check(users, email, password)} :
         IF r.status = 0
         THEN /\ calls' = [calls EXCEPT !.signup = SignupCall("insert", email, password)]
              /\ UNCHANGED resp
         ELSE /\ resp' = Response("signup", r.status, r.detail, None, 0, email, {})
              /\ UNCHANGED calls
    /\ UNCHANGED <<users, tasks, next_id, now_ms, env, process, store, ret, sent>>

\* The signup request inserts its row, commits and answers.
SignupCommit ==
    /\ calls.signup.pc = "insert"
    /\ \E r \in {signup_commit(users, calls.signup.email, calls.signup.password,
                               now_ms)} :
         /\ users' = r.users
         /\ resp' = Response("signup", r.status, r.detail, r.user, 0,
                             calls.signup.email, {})
    /\ calls' = [calls EXCEPT !.signup = IdleSignup]
    /\ UNCHANGED <<tasks, next_id, now_ms, env, process, store, ret, sent>>

-----------------------------------------------------------------------------
(* login: app/routes/auth.py.  Specification SpecLogin: accounts are created  *)
(* by signup and by the authenticator, and login requests arrive.             *)

\* login, lines 112-135.  user is the subject of the token issued (None when
\* no token is issued).  An exception of verify_password is not caught and
\* ends the request with a server error.
login(tbl, email, password) ==
    LET found == {u \in tbl : u.email = email}
    IN  IF found = {}
        THEN [status |-> 401, detail |-> "Invalid email or password", user |-> None]
        ELSE LET user == CHOOSE u \in found : TRUE
                 verified == verify_password(password, user.password_hash)
             IN  IF verified = "ValueError"
                 THEN [status |-> 500, detail |-> "Internal Server Error",
                       user |-> None]
                 ELSE IF verified = "False"
                 THEN [status |-> 401, detail |-> "Invalid email or password",
                       user |-> None]
                 ELSE [status |-> 200, detail |-> "Login successful",
                       user |-> Some(user.id)]

\* The emails and passwords of login requests: those of the signups, the
\* placeholder email of U2, an email no account has, and the empty password.
LoginEmails ==
    SignupEmails
    \cup {NewUserRow(U2, 0).email,
          <<"n", "o", "@", "e", "x", "a", "m", "p", "l", "e", ".", "c", "o", "m">>}
LoginPasswords == SignupPasswords \cup {<<>>}

InitLogin ==
    /\ users = {}
    /\ tasks = {}
    /\ next_id = 1
    /\ now_ms = Epoch
    /\ env = NoRequest
    /\ resp = NoResponse
    /\ calls = [signup |-> IdleSignup]
    /\ process = Serving
    /\ store = EmptyStore
    /\ ret = NoResult
    /\ sent = None

\* A correctly signed request of U1 or U2 passes get_current_user, which
\* provisions the user.
ProvisionUser ==
    /\ \E u \in CallerIds :
       \E req \in {SignedRequest([user_id |-> u, key |-> BETTER_AUTH_SECRET],
                                 now_ms, "GET", TasksPath, <<>>)} :
       \E r \in {GetCurrentUser(req, now_ms, users)} :
         /\ env' = req
         /\ resp' = Response("auth", r.status, r.detail, r.user, 0, <<>>, {})
         /\ users' = r.users
    /\ UNCHANGED <<tasks, next_id, now_ms, calls, process, store, ret, sent>>

\* A login request is served; the response records the email and the
\* password of the request.
Login ==
    /\ \E email \in LoginEmails, password \in LoginPasswords :
       \E r \in {login(users, email, password)} :
         resp' = Response("login", r.status, r.detail, r.user, 0,
                          <<email, password>>, {})
    /\ UNCHANGED <<users, tasks, next_id, now_ms, env, calls, process, store, ret, sent>>

NextLogin ==
    \/ SignupCheck
    \/ SignupCommit
    \/ ProvisionUser
    \/ Login

SpecLogin == InitLogin /\ [][NextLogin]_vars

-----------------------------------------------------------------------------

(* Specification SpecProv: get_current_user calls for one request, running    *)
(* concurrently (one worker process each) against the users table, among      *)
(* signups.  A call takes the steps of the code that touch the table: the     *)
(* checks, the select of line 81, the insert and commit of lines 95-96.       *)

\* The request every call carries: a list or a create request, correctly
\* signed for U1 or for U2, or signed with a key that is not the shared secret.
ProvEnvelopes ==
    {SignedRequest(sender, Epoch, "GET", TasksPath, <<>>) : sender \in Senders}
    \cup {SignedRequest(sender, Epoch, "POST", TasksPath, TaskBody(<<"a">>))
            : sender \in Senders}

\* A call: where it is in get_current_user, the identity it authenticated,
\* the status it returned, whether it began after another call had already
\* returned, and the error its provisioning printed at line 100 ("" if none).
Call(pc, user, status, later, error) ==
    [pc |-> pc, user |-> user, status |-> status, later |-> later,
     error |-> error]
IdleCall == Call("idle", None, 0, FALSE, "")

CallIds == 1..MaxCalls

\* Mutant of Finish: an error of the provisioning is not caught.
FinishUncaught(call, error) ==
    IF error = ""
    THEN [call EXCEPT !.pc = "done", !.status = 200]
    ELSE [call EXCEPT !.pc = "done", !.status = 500, !.user = None,
                      !.error = error]

\* Lines 98-107: whatever the provisioning raised is printed and dropped, and
\* the call returns the identity.
Finish(call, error) ==
    [call EXCEPT !.pc = "done", !.status = 200, !.error = error]

InitProv ==
    /\ users = {}
    /\ tasks = {}
    /\ next_id = 1
    /\ now_ms = Epoch
    /\ env \in ProvEnvelopes
    /\ resp = NoResponse
    /\ calls = [slot |-> [c \in CallIds |-> IdleCall], returned |-> 0,
                signup |-> IdleSignup]
    /\ process = Serving
    /\ store = EmptyStore
    /\ ret = NoResult
    /\ sent = None

\* Lines 38-75: the checks.  A failure ends the call.
Begin(c) ==
    /\ calls.slot[c].pc = "idle"
    /\ \E r \in {VerifyRequest(env, now_ms)} :
         calls' = [calls EXCEPT !.slot[c] =
                     IF r.status = 200
                     THEN Call("select", r.user, 0, calls.returned > 0, "")
                     ELSE Call("done", None, r.status, calls.returned > 0, "")]
    /\ UNCHANGED <<users, tasks, next_id, now_ms, env, resp, process, store, ret, sent>>

\* Line 81: the select.  A row that is there ends the provisioning.
Select(c) ==
    /\ calls.slot[c].pc = "select"
    /\ calls' = [calls EXCEPT !.slot[c] =
                    IF UserExists(users, calls.slot[c].user[1])
                    THEN Finish(@, "")
                    ELSE [@ EXCEPT !.pc = "insert"]]
    /\ UNCHANGED <<users, tasks, next_id, now_ms, env, resp, process, store, ret, sent>>

\* Lines 80-81: the connection or the select raises (the database is down).
SelectFails(c) ==
    /\ calls.slot[c].pc = "select"
    /\ calls' = [calls EXCEPT !.slot[c] = Finish(@, "OperationalError")]
    /\ UNCHANGED <<users, tasks, next_id, now_ms, env, resp, process, store, ret, sent>>

\* Lines 87-97: the insert and its commit; a constraint the row breaks makes
\* the commit raise IntegrityError.
Insert(c) ==
    /\ calls.slot[c].pc = "insert"
    /\ \E row \in {NewUserRow(calls.slot[c].user[1], now_ms)} :
         /\ users' = InsertUser(users, row)
         /\ calls' = [calls EXCEPT !.slot[c] =
                        Finish(@, IF InsertConflict(users, row)
                                  THEN "IntegrityError" ELSE "")]
    /\ UNCHANGED <<tasks, next_id, now_ms, env, resp, process, store, ret, sent>>

\* Line 96: the commit raises for a reason of the database; nothing is written.
CommitFails(c) ==
    /\ calls.slot[c].pc = "insert"
    /\ calls' = [calls EXCEPT !.slot[c] = Finish(@, "OperationalError")]
    /\ UNCHANGED <<users, tasks, next_id, now_ms, env, resp, process, store, ret, sent>>

\* Line 97: the commit went through and the refresh raises.
RefreshFails(c) ==
    /\ calls.slot[c].pc = "insert"
    /\ \E row \in {NewUserRow(calls.slot[c].user[1], now_ms)} :
         /\ ~InsertConflict(users, row)
         /\ users' = InsertUser(users, row)
         /\ calls' = [calls EXCEPT !.slot[c] = Finish(@, "OperationalError")]
    /\ UNCHANGED <<tasks, next_id, now_ms, env, resp, process, store, ret, sent>>

\* Line 107 (or the raise of a failed check): the call returns.  With an
\* identity the request goes on to its route handler; a failure is the
\* response.
Return(c) ==
    /\ calls.slot[c].pc = "done"
    /\ resp' = Response("auth", calls.slot[c].status,
                        IF calls.slot[c].status = 200 THEN "" ELSE Unauthorized.detail,
                        calls.slot[c].user, 0, env.body, {})
    /\ calls' = [calls EXCEPT !.slot[c] =
                                 IF calls.slot[c].status = 200
                                 THEN [@ EXCEPT !.pc = "route"] ELSE IdleCall,
                              !.returned = IF @ < MaxCalls THEN @ + 1 ELSE @]
    /\ UNCHANGED <<users, tasks, next_id, now_ms, env, process, store, ret, sent>>

\* The route handler of the request runs with the identity the dependency
\* returned.
Handler(c) ==
    /\ calls.slot[c].pc = "route"
    /\ Route(env.method, env.path) = "create_task" => next_id <= MaxTasks
    /\ \E out \in {Dispatch(Route(env.method, env.path), 0, env.body,
                            calls.slot[c].user[1])} :
         /\ resp' = Response(Route(env.method, env.path), out.status, out.detail,
                             calls.slot[c].user, 0, env.body, out.rows)
         /\ tasks' = out.tasks
         /\ next_id' = out.next_id
    /\ calls' = [calls EXCEPT !.slot[c] = IdleCall]
    /\ UNCHANGED <<users, now_ms, env, process, store, ret, sent>>

NextProv ==
    \/ \E c \in CallIds : Begin(c)
    \/ \E c \in CallIds : Select(c)
    \/ \E c \in CallIds : SelectFails(c)
    \/ \E c \in CallIds : Insert(c)
    \/ \E c \in CallIds : CommitFails(c)
    \/ \E c \in CallIds : RefreshFails(c)
    \/ \E c \in CallIds : Return(c)
    \/ \E c \in CallIds : Handler(c)
    \/ SignupCheck
    \/ SignupCommit
    \/ Tick

SpecProv == InitProv /\ [][NextProv]_vars

-----------------------------------------------------------------------------
(* Specification SpecStart: the process from its start.  app/main.py imports  *)
(* app/core/config.py (line 4), which builds and validates the settings, then *)
(* app/database (line 5), which opens the engine; then requests are served.   *)

\* Settings.validate: "" when the settings are accepted, else the message of
\* the ValueError it raises.
validate(settings) ==
    IF settings.DATABASE_URL = <<>> \/ settings.BETTER_AUTH_SECRET = <<>>
    THEN "Missing required environment variables"
    ELSE IF Len(settings.BETTER_AUTH_SECRET) < 32
    THEN "BETTER_AUTH_SECRET must be at least 32 characters long for security"
    ELSE ""

\* config.py lines 67-75: the state of the process after the module is
\* imported.  The ValueError of validate is caught and its message printed, so
\* the import ends the same way whether validate(settings) is "" or not.
AfterConfigImport(settings) == Process(settings, "config loaded")

\* connection.py lines 10-13: the import raises when DATABASE_URL is not set,
\* and nothing catches it.
AfterDatabaseImport(settings) ==
    IF settings.DATABASE_URL = <<>>
    THEN Process(settings, "aborted")
    ELSE Process(settings, "serving")

\* What the environment may hold for BETTER_AUTH_SECRET: nothing, 31
\* characters, or the 32 characters of the configured secret.
StartSecrets == {<<>>, Rep("k", 31), BETTER_AUTH_SECRET}
StartDatabaseUrls == {<<>>, DatabaseUrl}

\* Who sends requests to the started process: the proxy, which signs with the
\* secret of its own environment, for either user.
StartSenders ==
    {[user_id |-> u, key |-> k] : u \in CallerIds, k \in StartSecrets}

InitStart ==
    /\ users = {}
    /\ tasks = {}
    /\ next_id = 1
    /\ now_ms = Epoch
    /\ env = NoRequest
    /\ resp = NoResponse
    /\ calls = <<>>
    /\ \E secret \in StartSecrets, url \in StartDatabaseUrls :
         process = Process(Settings(secret, url), "importing")
    /\ store = EmptyStore
    /\ ret = NoResult
    /\ sent = None

ImportConfig ==
    /\ process.state = "importing"
    /\ process' = AfterConfigImport(process.settings)
    /\ UNCHANGED <<users, tasks, next_id, now_ms, env, resp, calls, store, ret, sent>>

ImportDatabase ==
    /\ process.state = "config loaded"
    /\ process' = AfterDatabaseImport(process.settings)
    /\ UNCHANGED <<users, tasks, next_id, now_ms, env, resp, calls, store, ret, sent>>

\* A request to GET /api/tasks/ reaches the serving process and goes through
\* get_current_user with the secret of the settings.
StartRequest ==
    /\ process.state = "serving"
    /\ \E sender \in StartSenders :
       \E req \in {SignedRequest(sender, now_ms, "GET", TasksPath, <<>>)} :
       \E r \in {VerifyWithSecret(process.settings.BETTER_AUTH_SECRET, req, now_ms)} :
         /\ env' = req
         /\ resp' = Response("auth", r.status, r.detail, r.user, 0, req.body, {})
         /\ users' = IF r.status = 200
                     THEN Provision(users, r.user[1], now_ms) ELSE users
    /\ UNCHANGED <<tasks, next_id, now_ms, calls, process, store, ret, sent>>

NextStart ==
    \/ ImportConfig
    \/ ImportDatabase
    \/ StartRequest
    \/ Tick

SpecStart == InitStart /\ [][NextStart]_vars

-----------------------------------------------------------------------------
(* Specification SpecSign: the proxy signs one request and sends it; requests *)
(* that carry the identity headers of that request reach get_current_user.    *)

\* What the requests are made of.  A path is the prefix of the task routes
\* followed by single characters and a body is a text of single characters,
\* so two of them are equal as texts exactly when they are equal here.
SignMethods == {"GET", "POST"}
ReceivedMethods == SignMethods \cup {"get"}
SignPaths == {TasksPath, TasksPath \o <<"1">>, TasksPath \o <<":", "x">>}
SignBodies == {<<>>, <<"x">>, <<"y">>, <<"x", ":", "y">>}

InitSign ==
    /\ users = {}
    /\ tasks = {}
    /\ next_id = 1
    /\ now_ms = Epoch
    /\ env = NoRequest
    /\ resp = NoResponse
    /\ calls = <<>>
    /\ process = Serving
    /\ store = EmptyStore
    /\ ret = NoResult
    /\ sent = None

\* The proxy signs a request of user U1 with the shared secret.
ProxySend ==
    /\ sent = None
    /\ \E m \in SignMethods, p \in SignPaths, b \in SignBodies :
         sent' = Some(Request(
                     IdentityHeaders(StrUUID(U1), IntToStr(Epoch),
                         Sign(BETTER_AUTH_SECRET, StrUUID(U1), IntToStr(Epoch),
                              m, p, b)),
                     m, p, b))
    /\ UNCHANGED <<users, tasks, next_id, now_ms, env, resp, calls, process, store, ret>>

\* A request with the identity headers of the signed request arrives and
\* get_current_user runs on it.
Deliver ==
    /\ sent # None
    /\ \E m \in ReceivedMethods, p \in SignPaths, b \in SignBodies :
       \E r \in {GetCurrentUser(Request(sent[1].headers, m, p, b), now_ms, users)} :
         /\ env' = Request(sent[1].headers, m, p, b)
         /\ resp' = Response("auth", r.status, r.detail, r.user, 0, b, {})
         /\ users' = r.users
    /\ UNCHANGED <<tasks, next_id, now_ms, calls, process, store, ret, sent>>

NextSign == ProxySend \/ Deliver

SpecSign == InitSign /\ [][NextSign]_vars

-----------------------------------------------------------------------------

(* Specification SpecStore: the calls the console application makes on its    *)
(* TaskStore, one after the other.                                            *)

\* Titles and descriptions given to add: accepted ones (plain, padded with
\* blanks, of the greatest length allowed) and refused ones (empty, blank, one
\* character too long, of the greatest length allowed with a blank in front).
AddArguments ==
    {<< <<"a">>, None >>,
     << <<" ", "b", " ">>, Some(<<" ", "d", " ">>) >>,
     << <<"a">>, Some(<<>>) >>,
     << Rep("x", 200), None >>,
     << <<>>, None >>,
     << <<" ">>, None >>,
     << Rep("x", 201), None >>,
     << <<" ">> \o Rep("x", 200), None >>,
     << <<"a">>, Some(Rep("y", 1001)) >>}

\* Titles and descriptions given to update; None leaves the field as it is.
UpdateArguments ==
    {<< None, None >>,
     << Some(<<"c">>), None >>,
     << None, Some(<<>>) >>,
     << Some(<<" ">>), None >>,
     << Some(Rep("x", 201)), Some(<<"d">>) >>,
     << Some(<<"c">>), Some(Rep("y", 1001)) >>}

\* The ids calls are made with: every id add can assign, and one more.
StoreIds == 1..(MaxAdds + 1)

InitStore ==
    /\ users = {}
    /\ tasks = {}
    /\ next_id = 1
    /\ now_ms = Epoch
    /\ env = NoRequest
    /\ resp = NoResponse
    /\ calls = <<>>
    /\ process = Serving
    /\ store = EmptyStore
    /\ ret = NoResult
    /\ sent = None

\* The call ends with effect e.
Ends(op, args, e) ==
    /\ store' = e.store
    /\ ret' = CallResult(op, args, e.value, e.error,
                         IF op = "add" /\ e.error = "" THEN ret.adds + 1
                         ELSE ret.adds)
    /\ UNCHANGED <<users, tasks, next_id, now_ms, env, resp, calls, process, sent>>

Add ==
    /\ store.next_id <= MaxAdds
    /\ \E a \in AddArguments : Ends("add", a, add(store, a[1], a[2], now_ms))

Get ==
    /\ \E id \in StoreIds :
         Ends("get", <<id>>, Effect(store, get(store, id), ""))

ListAll ==
    /\ Ends("list_all", <<>>, Effect(store, list_all(store), ""))

Update ==
    /\ \E id \in StoreIds, a \in UpdateArguments :
         Ends("update", <<id, a[1], a[2]>>, update(store, id, a[1], a[2]))

Delete ==
    /\ \E id \in StoreIds : Ends("delete", <<id>>, delete(store, id))

MarkComplete ==
    /\ \E id \in StoreIds, completed \in BOOLEAN :
         Ends("mark_complete", <<id, completed>>,
              mark_complete(store, id, completed))

NextStore ==
    \/ Add
    \/ Get
    \/ ListAll
    \/ Update
    \/ Delete
    \/ MarkComplete

SpecStore == InitStore /\ [][NextStore]_vars

-----------------------------------------------------------------------------
(* Properties of the task routes, checked under Spec *)

\* C1: list_tasks answers user A with exactly the tasks whose user_id is A,
\* get_task answers A with the task of the given id only if its user_id is A,
\* and no answer of any route holds a task of another user.
C1_ReadIsolation ==
    /\ (resp.op = "list_tasks" /\ resp.status = 200)
         => resp.rows = {t \in tasks : t.user_id = resp.user[1]}
    /\ (resp.op = "get_task" /\ resp.status = 200)
         => /\ resp.rows # {}
            /\ \A t \in resp.rows :
                 t \in tasks /\ t.id = resp.task_id /\ t.user_id = resp.user[1]
    /\ \A t \in resp.rows : resp.user # None /\ t.user_id = resp.user[1]

\* list_tasks answered a user with tasks of his while another user had tasks.
C1_Witness ==
    /\ resp.op = "list_tasks"
    /\ resp.status = 200
    /\ resp.rows # {}
    /\ \E t \in tasks : t.user_id # resp.user[1]

\* The request named, in its path, a task that exists and is owned by a user
\* other than the authenticated one.
ForeignTask(tbl, r) ==
    /\ r.user # None
    /\ \E t \in tbl : t.id = r.task_id /\ t.user_id # r.user[1]

\* C2: update_task, toggle_task or delete_task called by a user with the id of
\* a task of another user answers 404 and leaves the tasks table (the task's
\* description, completed flag, updated_at and existence) as it was.  (A
\* status of 401 or 422 means the handler was not called.)
C2_WriteIsolation ==
    [][(/\ resp'.op \in {"update_task", "toggle_task", "delete_task"}
        /\ resp'.status \notin {401, 422}
        /\ ForeignTask(tasks, resp'))
       => (/\ resp'.status = 404
           /\ resp'.detail = "Task not found or access denied"
           /\ tasks' = tasks)]_vars

\* update_task was refused for a task of another user, last written at an
\* earlier clock value.
C2_Witness ==
    /\ resp.op = "update_task"
    /\ resp.status = 404
    /\ ForeignTask(tasks, resp)
    /\ \E t \in tasks : t.id = resp.task_id /\ t.updated_at < now_ms
                        /\ t.description # ParseTaskBody(resp.body).description

\* C3: a task create_task inserts is owned by the identity get_current_user
\* returned and is not completed, and no request changes the user_id of a
\* task that exists.
C3_OwnershipFixed ==
    [][/\ (resp'.op = "create_task" /\ resp'.status = 201)
            => /\ resp'.rows # {}
               /\ \A t \in resp'.rows :
                    /\ t \in tasks' /\ t \notin tasks
                    /\ t.user_id = resp'.user[1]
                    /\ t.completed = FALSE
       /\ \A t \in tasks : \A t2 \in tasks' :
            t2.id = t.id => t2.user_id = t.user_id]_vars

\* create_task inserted a task for the authenticated user while the body of
\* the request named another user as owner.
C3_Witness ==
    /\ resp.op = "create_task"
    /\ resp.status = 201
    /\ BodyUserId(resp.body) # None
    /\ BodyUserId(resp.body)[1] # StrUUID(resp.user[1])
    /\ \E t \in resp.rows : t \in tasks /\ t.user_id = resp.user[1]

-----------------------------------------------------------------------------
(* Properties of the authenticator, checked under SpecAuth *)

\* The three identity headers are present and none is the empty text.
AllPresent(req) ==
    \A h \in HeaderNames : h \in DOMAIN req.headers /\ req.headers[h] # <<>>

\* The signature header is the HMAC, under the shared secret, of the canonical
\* payload of the request as received.
CorrectlySigned(req) ==
    /\ AllPresent(req)
    /\ ValidUtf8(req.body)
    /\ req.headers["x-internal-signature"] =
         HmacSha256Hex(BETTER_AUTH_SECRET,
            Payload(req.headers["x-user-id"], req.headers["x-internal-timestamp"],
                    req.method, req.path, req.body))

\* The timestamp header is a number.
NumericTimestamp(req) == ParseInt(req.headers["x-internal-timestamp"]).ok
TimestampOf(req) == ParseInt(req.headers["x-internal-timestamp"]).val

\* C4: every envelope with the three headers present, a correct signature and
\* a timestamp within the skew is authenticated, and the identity returned is
\* exactly the text of the x-user-id header, UUID or not.
C4_ValidEnvelopeReturnsHeaderId ==
    (/\ resp.op = "auth"
     /\ CorrectlySigned(env)
     /\ NumericTimestamp(env)
     /\ Abs(now_ms - TimestampOf(env)) <= INTERNAL_TIME_SKEW_MS)
    => /\ resp.status = 200
       /\ resp.user # None
       /\ StrUUID(resp.user[1]) = env.headers["x-user-id"]

\* C5: whenever the received signature differs from the expected one, the call
\* fails with Unauthorized and returns no identity.
C5_WrongSignatureUnauthorized ==
    (/\ resp.op = "auth"
     /\ AllPresent(env)
     /\ ValidUtf8(env.body)
     /\ ~CorrectlySigned(env))
    => /\ resp.status = 401
       /\ resp.user = None

\* The request passes every check other than the skew check.
PassesOtherChecks(req) ==
    /\ CorrectlySigned(req)
    /\ ParseUUID(req.headers["x-user-id"]).ok
    /\ NumericTimestamp(req)

\* C6: for a request that passes every other check, a timestamp exactly
\* 300000 ms from the clock, before or after it, is accepted and one exactly
\* 300001 ms from it is rejected with Unauthorized.
C6_SkewBoundaryInclusive ==
    (resp.op = "auth" /\ PassesOtherChecks(env))
    => /\ Abs(now_ms - TimestampOf(env)) = 300000 => resp.status = 200
       /\ Abs(now_ms - TimestampOf(env)) = 300001 =>
            (resp.status = 401 /\ resp.user = None)

\* A timestamp 300000 ms in the future of the clock was accepted.
C6_Witness ==
    /\ resp.op = "auth"
    /\ PassesOtherChecks(env)
    /\ TimestampOf(env) - now_ms = 300000
    /\ resp.status = 200

\* C7: a request in which one of the three headers is missing or empty fails
\* with Unauthorized, whatever the rest of the request is.
C7_MissingHeaderUnauthorized ==
    (resp.op = "auth" /\ ~AllPresent(env))
    => /\ resp.status = 401
       /\ resp.detail = "Unauthorized"
       /\ resp.user = None

\* A request whose only defect is the missing signature header was rejected.
C7_Witness ==
    /\ resp.op = "auth"
    /\ DOMAIN env.headers = {"x-user-id", "x-internal-timestamp"}
    /\ ParseUUID(env.headers["x-user-id"]).ok
    /\ NumericTimestamp(env)
    /\ Abs(now_ms - TimestampOf(env)) <= INTERNAL_TIME_SKEW_MS
    /\ resp.status = 401

\* The signature header is the proxy's signature of the same request sent
\* with method m.
SignedForMethod(req, m) ==
    /\ AllPresent(req)
    /\ ValidUtf8(req.body)
    /\ req.headers["x-internal-signature"] =
         Sign(BETTER_AUTH_SECRET, req.headers["x-user-id"],
              req.headers["x-internal-timestamp"], m, req.path, req.body)

\* C8: a signature computed for the GET request is rejected with Unauthorized
\* when it is presented on the POST request with the same user id, timestamp,
\* path and body.
C8_GetSignatureRejectedOnPost ==
    (/\ resp.op = "auth"
     /\ env.method = "POST"
     /\ SignedForMethod(env, "GET"))
    => /\ resp.status = 401
       /\ resp.user = None

\* A POST carrying the GET signature, with a valid user id and a fresh
\* timestamp, was rejected.
C8_Witness ==
    /\ resp.op = "auth"
    /\ env.method = "POST"
    /\ SignedForMethod(env, "GET")
    /\ ParseUUID(env.headers["x-user-id"]).ok
    /\ NumericTimestamp(env)
    /\ now_ms = TimestampOf(env)
    /\ resp.status = 401

-----------------------------------------------------------------------------
(* Properties of provisioning, checked under SpecProv *)

\* The identity the request carries, and the rows the users table holds for it.
EnvUserId == ParseUUID(env.headers["x-user-id"]).val
RowsOf(tbl, u) == {r \in tbl : r.id = u}

\* The call returned success with the identity of the request.
Succeeded(call) ==
    /\ call.pc = "done"
    /\ call.status = 200
    /\ call.user = Some(EnvUserId)

\* C9: when the calls that ran concurrently for a correctly signed request
\* with a previously unseen id have all finished, each has returned success
\* with that id and the users table holds exactly one row with that id.
C9_ConcurrentFirstRequestsOneRow ==
    CorrectlySigned(env)
    => /\ \A c \in CallIds : calls.slot[c].pc = "done" => Succeeded(calls.slot[c])
       /\ (\A c \in CallIds : calls.slot[c].pc = "done" /\ ~calls.slot[c].later)
          => Cardinality(RowsOf(users, EnvUserId)) = 1

\* C10: a call made after an earlier call with the same correctly signed
\* request has returned finds the row of that id: it does not reach the
\* insert, it returns the same identity, and the users table holds exactly
\* one row with that id.
C10_LaterCallsFindTheRow ==
    CorrectlySigned(env)
    => \A c \in CallIds :
         calls.slot[c].later
         => /\ calls.slot[c].pc # "insert"
            /\ calls.slot[c].pc = "done"
               => /\ Succeeded(calls.slot[c])
                  /\ Cardinality(RowsOf(users, EnvUserId)) = 1

\* The signature and timestamp checks pass for the request at this time.
ChecksPass(req, now) ==
    /\ PassesOtherChecks(req)
    /\ Abs(now - TimestampOf(req)) <= INTERNAL_TIME_SKEW_MS

\* C11: a call whose checks have passed returns the verified identity whatever
\* its provisioning raised: a failed lookup, a uniqueness conflict at the
\* commit, a failed commit or a failed refresh.
C11_ProvisioningFailureNeverFailsAuth ==
    \A c \in CallIds :
        (calls.slot[c].pc = "done" /\ ChecksPass(env, now_ms))
        => Succeeded(calls.slot[c])

\* A call returned the identity after a uniqueness conflict, and another one
\* after an error of the database.
C11_Witness ==
    /\ ChecksPass(env, now_ms)
    /\ \E c \in CallIds :
         Succeeded(calls.slot[c]) /\ calls.slot[c].error = "IntegrityError"
    /\ \E c \in CallIds :
         Succeeded(calls.slot[c]) /\ calls.slot[c].error = "OperationalError"

-----------------------------------------------------------------------------
(* Properties of the authenticator's errors, checked under SpecAuth *)

\* C12: whatever the request, get_current_user returns an identity or fails
\* with Unauthorized (status 401, detail "Unauthorized", no identity); nothing
\* else reaches the caller.
C12_OnlyUnauthorizedEscapes ==
    resp.op = "auth"
    => \/ resp.status = 200 /\ resp.user # None
       \/ /\ resp.status = Unauthorized.status
          /\ resp.detail = Unauthorized.detail
          /\ resp.user = None

-----------------------------------------------------------------------------
(* Frame of the authenticator, checked under SpecProv *)

\* Call c takes a step of get_current_user: from its checks to its return.
AuthStep(c) ==
    /\ calls.slot[c].pc \in {"idle", "select", "insert", "done"}
    /\ calls'.slot[c] # calls.slot[c]

\* C13: a step of get_current_user leaves the Task rows alone, keeps every
\* User row that exists as it is, and writes at most one new User row, the one
\* of the identity it verified.
C13_AuthenticatorFrame ==
    [][\A c \in CallIds :
         AuthStep(c)
         => /\ tasks' = tasks
            /\ next_id' = next_id
            /\ users \subseteq users'
            /\ Cardinality(users' \ users) <= 1
            /\ \A r \in users' \ users :
                 calls.slot[c].user # None /\ r.id = calls.slot[c].user[1]]_vars

\* One call has written its row and another has hit a uniqueness conflict,
\* while a Task row and the User row of a signup exist.
C13_Witness ==
    /\ tasks # {}
    /\ \E r \in users : r.id \in SignupIds
    /\ RowsOf(users, EnvUserId) # {}
    /\ \E c \in CallIds :
         calls.slot[c].pc = "done" /\ calls.slot[c].error = "IntegrityError"

-----------------------------------------------------------------------------
(* Properties of the startup, checked under SpecStart *)

\* C14: a process whose BETTER_AUTH_SECRET is absent or shorter than 32
\* characters never serves requests: its startup aborts.
C14_NoServingWithWeakSecret ==
    process.state = "serving"
    => Len(process.settings.BETTER_AUTH_SECRET) >= 32

-----------------------------------------------------------------------------
(* Properties of the two tables, checked under SpecProv *)

\* C15: every Task row is owned by a User that exists: its user_id is the id
\* of a row of the users table.
C15_TaskOwnerExists ==
    \A t \in tasks : \E u \in users : u.id = t.user_id

\* C16: no two User rows share an email, and a signup whose email is
\* registered when it is answered is rejected with 409 "Email already
\* registered" and creates no User row.
C16_EmailUnique ==
    /\ [](\A u, v \in users : u.email = v.email => u = v)
    /\ [][(/\ resp' # resp
           /\ resp'.op = "signup"
           /\ EmailExists(users, resp'.body))
          => /\ resp'.status = 409
             /\ resp'.detail = "Email already registered"
             /\ users' = users]_vars

-----------------------------------------------------------------------------
(* Properties of the TaskStore, checked under SpecStore *)

\* The ids of the tasks in the store, in the order of the list.
IdsOf(seq) == [k \in 1..Len(seq) |-> seq[k].id]

\* C17: the n-th call of add that returns a task returns it with id n,
\* whatever calls came in between; the tasks in the store have pairwise
\* distinct ids, all smaller than next_id.
C17_AddAssignsNthId ==
    /\ (ret.op = "add" /\ ret.error = "")
       => /\ ret.value # None
          /\ ret.value[1].id = ret.adds
    /\ \A k \in 1..Len(store.tasks) : store.tasks[k].id < store.next_id
    /\ \A j, k \in 1..Len(store.tasks) :
         store.tasks[j].id = store.tasks[k].id => j = k

\* The third add has returned id 3 and the tasks 1 and 2 have been deleted.
C17_Witness ==
    /\ ret.op = "add"
    /\ ret.error = ""
    /\ ret.adds = 3
    /\ IdsOf(store.tasks) = <<3>>

\* The elements of a sequence.
Range(seq) == {seq[k] : k \in 1..Len(seq)}

\* C18: list_all returns the tasks in the store, all of them and no other, in
\* the order they were added (ids ascending), and leaves the store as it is.
C18_ListAllInInsertionOrder ==
    /\ [](ret.op = "list_all"
          => /\ Len(ret.value) = Len(store.tasks)
             /\ Range(ret.value) = Range(store.tasks)
             /\ \A j, k \in 1..Len(ret.value) :
                  j < k => ret.value[j].id < ret.value[k].id)
    /\ [][ret'.op = "list_all" => store' = store]_vars

\* list_all has returned the tasks 1 and 3, in this order, after task 2 was
\* deleted.
C18_Witness ==
    /\ ret.op = "list_all"
    /\ IdsOf(ret.value) = <<1, 3>>
    /\ store.next_id = 4

\* The arguments of add that the claim calls invalid: an empty or blank title,
\* a title of more than 200 characters, a description of more than 1000.
InvalidAddArguments(args) ==
    \/ args[1] = <<>>
    \/ \A i \in 1..Len(args[1]) : args[1][i] = " "
    \/ Len(args[1]) > 200
    \/ args[2] # None /\ Len(args[2][1]) > 1000

\* C19: add with an invalid argument raises ValueError and leaves the store as
\* it was: no task appended, next_id not advanced, so that next_id always is
\* one more than the number of adds that returned a task.
C19_FailedAddLeavesStore ==
    /\ [][(ret'.op = "add" /\ InvalidAddArguments(ret'.args))
          => /\ ret'.error # ""
             /\ ret'.value = None
             /\ store' = store]_vars
    /\ [](store.next_id = ret.adds + 1)

\* add has raised for a description of 1001 characters on a store that holds
\* one task.
C19_Witness ==
    /\ ret.op = "add"
    /\ ret.args[2] # None
    /\ Len(ret.args[2][1]) = 1001
    /\ ret.error = "Description must be at most 1000 characters"
    /\ Len(store.tasks) = 1
    /\ store.next_id = 2

\* C20: for an id no task in the store has, update, delete and mark_complete
\* return False and get returns None, and the store (its tasks and next_id) is
\* left as it was.
C20_MissingIdLeavesStore ==
    [][(/\ ret'.op \in {"get", "update", "delete", "mark_complete"}
        /\ \A k \in 1..Len(store.tasks) : store.tasks[k].id # ret'.args[1])
       => /\ store' = store
          /\ ret'.error = ""
          /\ ret'.op = "get" => ret'.value = None
          /\ ret'.op # "get" => ret'.value = FALSE]_vars

\* delete has returned False for the id 1, which was assigned and deleted
\* before, while the store holds the tasks 2 and 3.
C20_Witness ==
    /\ ret.op = "delete"
    /\ ret.args = <<1>>
    /\ ret.value = FALSE
    /\ IdsOf(store.tasks) = <<2, 3>>

\* The tasks of the sequence other than those with the given id, in order.
Without(seq, task_id) == SelectSeq(seq, LAMBDA t : t.id # task_id)

\* C21: delete of an id that is in the store returns True and removes that
\* task and no other: get of the id is None afterwards, there is one task
\* fewer, and the other tasks are as they were and in the same order.  An id
\* that has been assigned and is not in the store is not in the store after
\* any further call either.
C21_DeleteRemovesExactlyThatTask ==
    [][/\ (/\ ret'.op = "delete"
           /\ \E k \in 1..Len(store.tasks) : store.tasks[k].id = ret'.args[1])
          => /\ ret'.error = ""
             /\ ret'.value = TRUE
             /\ get(store', ret'.args[1]) = None
             /\ Len(store'.tasks) = Len(store.tasks) - 1
             /\ store'.tasks = Without(store.tasks, ret'.args[1])
             /\ store'.next_id = store.next_id
       /\ \A id \in 1..(store.next_id - 1) :
            get(store, id) = None => get(store', id) = None]_vars

\* delete has returned True for the id 2 and the store holds the tasks 1 and
\* 3, in that order.
C21_Witness ==
    /\ ret.op = "delete"
    /\ ret.args = <<2>>
    /\ ret.error = ""
    /\ ret.value = TRUE
    /\ IdsOf(store.tasks) = <<1, 3>>

\* C22: mark_complete(id, c) for an id that is in the store returns True and
\* leaves the task's completed flag equal to c; the task's other fields, the
\* other tasks and next_id are as before, and the same call made again leaves
\* the store as it is.
C22_MarkCompleteSets ==
    [][(/\ ret'.op = "mark_complete"
        /\ \E k \in 1..Len(store.tasks) : store.tasks[k].id = ret'.args[1])
       => /\ ret'.error = ""
          /\ ret'.value = TRUE
          /\ Len(store'.tasks) = Len(store.tasks)
          /\ store'.next_id = store.next_id
          /\ \A k \in 1..Len(store.tasks) :
               IF store.tasks[k].id = ret'.args[1]
               THEN /\ store'.tasks[k].completed = ret'.args[2]
                    /\ store'.tasks[k].id = store.tasks[k].id
                    /\ store'.tasks[k].title = store.tasks[k].title
                    /\ store'.tasks[k].description = store.tasks[k].description
                    /\ store'.tasks[k].created_at = store.tasks[k].created_at
               ELSE store'.tasks[k] = store.tasks[k]
          /\ mark_complete(store', ret'.args[1], ret'.args[2]) =
                 Effect(store', TRUE, "")]_vars

\* mark_complete(2, True) has returned True on a store of two tasks: task 2
\* is complete and task 1 is not.
C22_Witness ==
    /\ ret.op = "mark_complete"
    /\ ret.args = <<2, TRUE>>
    /\ ret.error = ""
    /\ ret.value = TRUE
    /\ IdsOf(store.tasks) = <<1, 2>>
    /\ store.tasks[2].completed
    /\ ~store.tasks[1].completed

-----------------------------------------------------------------------------
(* Order of verification and provisioning, checked under SpecAuth *)

\* C23: a call of get_current_user changes the users table only when the
\* header, timestamp, skew and signature checks pass for the request at the
\* time of the call, and then it adds rows of the verified id only; a call
\* that ends in Unauthorized leaves the users table exactly as it was.
C23_NoWriteBeforeVerification ==
    [][resp'.op = "auth"
       => /\ users' # users
             => /\ ChecksPass(env, now_ms)
                /\ resp'.status = 200
                /\ users \subseteq users'
                /\ \A r \in users' \ users : r.id = EnvUserId
          /\ resp'.status = Unauthorized.status => users' = users]_vars

\* A call has ended in Unauthorized for a correctly signed request whose
\* timestamp is no longer within the skew, and the row an earlier call of the
\* same request wrote is still the only row of the table.
C23_Witness ==
    /\ resp.op = "auth"
    /\ resp.status = Unauthorized.status
    /\ PassesOtherChecks(env)
    /\ ~ChecksPass(env, now_ms)
    /\ users = {NewUserRow(EnvUserId, Epoch)}

-----------------------------------------------------------------------------
(* The signed payload, checked under SpecSign *)

\* The payload get_current_user builds for a request.
PayloadOf(req) ==
    Payload(req.headers["x-user-id"], req.headers["x-internal-timestamp"],
            Upper(req.method), req.path, req.body)

\* C24: with the user id and the timestamp fixed, a request that differs from
\* the signed one in method, path or body has another payload, and
\* get_current_user does not accept it with the signature of the signed one.
C24_PayloadInjective ==
    (sent # None /\ resp.op = "auth")
    => /\ PayloadOf(env) = PayloadOf(sent[1])
          => /\ env.method = sent[1].method
             /\ env.path = sent[1].path
             /\ env.body = sent[1].body
       /\ resp.status = 200
          => /\ env.method = sent[1].method
             /\ env.path = sent[1].path
             /\ env.body = sent[1].body

-----------------------------------------------------------------------------
(* Properties of update and of the stored fields, checked under SpecStore *)

\* C25: when update raises ValueError for a task that is in the store, the
\* task has the title and the description it had before the call.
C25_UpdateAllOrNothing ==
    [][(/\ ret'.op = "update"
        /\ ret'.error # ""
        /\ \E k \in 1..Len(store.tasks) : store.tasks[k].id = ret'.args[1])
       => \A k \in 1..Len(store.tasks) :
            /\ store'.tasks[k].title = store.tasks[k].title
            /\ store'.tasks[k].description = store.tasks[k].description]_vars

\* The text has no blank at either end.
Trimmed(s) == s = <<>> \/ (s[1] \notin Whitespace /\ s[Len(s)] \notin Whitespace)

\* C26: every task in the store has a title without blanks at its ends and of
\* 1 to 200 characters, and a description that is None or has no blanks at its
\* ends and at most 1000 characters; and add accepts every title whose trimmed
\* form has 1 to 200 characters (given a description it accepts).
C26_StoredFields ==
    /\ \A k \in 1..Len(store.tasks) :
         /\ Trimmed(store.tasks[k].title)
         /\ Len(store.tasks[k].title) \in 1..200
         /\ \/ store.tasks[k].description = None
            \/ /\ Trimmed(store.tasks[k].description[1])
               /\ Len(store.tasks[k].description[1]) <= 1000
    /\ (/\ ret.op = "add"
        /\ Len(Strip(ret.args[1], Whitespace)) \in 1..200
        /\ ret.args[2] = None \/ Len(ret.args[2][1]) <= 1000)
       => ret.error = ""

-----------------------------------------------------------------------------
(* Responses of the task routes, checked under Spec *)

\* The response is to an authenticated user and names a task id that no row
\* of the table has.
AbsentTask(tbl, r) ==
    /\ r.user # None
    /\ \A t \in tbl : t.id # r.task_id

\* C27: get_task, update_task, toggle_task and delete_task answer a user who
\* names a task of another user exactly as they answer one who names a task
\* that does not exist: 404, "Task not found or access denied", no row.  (An
\* update whose body is refused is answered 422 in both cases, before the
\* handler runs.)
C27_ExistenceNotLeaked ==
    [][(/\ resp'.op \in {"get_task", "update_task", "toggle_task", "delete_task"}
        /\ ForeignTask(tasks, resp') \/ AbsentTask(tasks, resp'))
       => /\ resp'.rows = {}
          /\ tasks' = tasks
          /\ IF resp'.op = "update_task" /\ ~ParseTaskBody(resp'.body).ok
             THEN resp'.status = 422
             ELSE /\ resp'.status = NotFound.status
                  /\ resp'.detail = NotFound.detail]_vars

\* get_task has answered 404 to a user who named the task of another user,
\* while the id after it is not in the table.
C27_Witness ==
    /\ resp.op = "get_task"
    /\ resp.status = 404
    /\ ForeignTask(tasks, resp)
    /\ \A t \in tasks : t.id # resp.task_id + 1

\* C28: a toggle_task the owner gets 200 for flips the completed flag of the
\* task named and changes nothing else but its updated_at: its id, user_id,
\* description and created_at and every other task are as before; and the
\* same request served again gives the flag the value it had at first.
C28_ToggleFlips ==
    [][\A cu \in {U1, U2}, id \in TaskIds :
         (/\ resp'.op = "toggle_task"
          /\ resp'.status = 200
          /\ resp'.user = Some(cu)
          /\ resp'.task_id = id)
         => \E t \in tasks, n \in tasks' :
              /\ t.id = id /\ t.user_id = cu
              /\ tasks' = (tasks \ {t}) \cup {n}
              /\ next_id' = next_id
              /\ n.completed = ~t.completed
              /\ n.id = t.id
              /\ n.user_id = t.user_id
              /\ n.description = t.description
              /\ n.created_at = t.created_at
              /\ resp'.rows = {n}
              /\ (toggle_task(cu, id).status)' = 200
              /\ \A m \in (toggle_task(cu, id).rows)' :
                   /\ m.completed = t.completed
                   /\ m.id = t.id
                   /\ m.user_id = t.user_id
                   /\ m.description = t.description]_vars

\* toggle_task has answered 200 for a task that is now not completed (it was
\* completed before the request), while the other task of the table is
\* completed.
C28_Witness ==
    /\ resp.op = "toggle_task"
    /\ resp.status = 200
    /\ \E t \in tasks, o \in tasks :
         /\ t.id = resp.task_id
         /\ ~t.completed
         /\ o.id # t.id
         /\ o.completed

-----------------------------------------------------------------------------
(* Properties of login, checked under SpecLogin *)

\* C29: login issues a token exactly when a User row has the email of the
\* request and the password of the request verifies against its hash, and the
\* token is for that user; every other request, whether no row has the email,
\* the password is wrong or the row was written by the authenticator with an
\* empty hash, is answered 401 "Invalid email or password"; and login leaves
\* the users table as it was.
C29_LoginOutcome ==
    [][resp'.op = "login"
       => /\ users' = users
          /\ IF \E u \in users :
                  /\ u.email = resp'.body[1]
                  /\ u.password_hash = hash_password(resp'.body[2])
             THEN /\ resp'.status = 200
                  /\ resp'.user # None
                  /\ \E u \in users :
                       u.email = resp'.body[1] /\ u.id = resp'.user[1]
             ELSE /\ resp'.status = 401
                  /\ resp'.detail = "Invalid email or password"
                  /\ resp'.user = None]_vars

====
